---- MODULE Spec2Model ----
(***************************************************************************)
(* Equipment lending portal: the equipment ledger (quantity / available)   *)
(* and the borrow-request lifecycle of the Express/Mongoose backend.       *)
(*                                                                         *)
(* Every handler is an async function; each `await` on the database is one *)
(* atomic step of the handler, and handlers of concurrent HTTP requests    *)
(* interleave between those steps.  The synchronous code that follows an   *)
(* await (checks, early returns) is folded into the step of that await.    *)
(***************************************************************************)
EXTENDS Integers, Sequences, FiniteSets, TLC

\* ---------------------------------------------------------------- bounds
NumProcs == 2        \* HTTP requests being handled at the same time
MaxEq == 1           \* equipment documents ever created
MaxReq == 2          \* borrow-request documents ever created
MaxQty == 2          \* largest quantity a client sends (one call at a time)
ConcQty == 1         \* largest quantity a client sends (concurrent calls)
MaxDay == 4          \* dates are day numbers 0..MaxDay (one call at a time)
ConcDay == 2         \* dates are day numbers 0..ConcDay (concurrent calls)
MaxSpan == 1         \* longest loan a client asks for, in days
MaxCalls == 6        \* HTTP requests received in a concurrent run
MaxAvail == 3        \* cap on available under repeated increments

\* `today` of createRequest (new Date() at midnight): day 0 is in the past.
Today == 1

Procs == 1..NumProcs
Roles == {"none", "student", "staff", "admin"}
Reasons == {"damaged", "overlong"}   \* reasons an admin sends
MaxReasonLength == 300              \* maxlength of rejectionReason

\* Number of characters of a reason ("overlong" stands for a text of 301).
ReasonLength(reason) ==
  CASE reason = "damaged" -> 7
    [] reason = "overlong" -> MaxReasonLength + 1
    [] OTHER -> 0
Null == "null"

\* A field the request body does not carry (JavaScript undefined).
Undefined == -9

VARIABLES
  equipment,    \* Seq of equipment documents, index = _id
  requests,     \* Seq of request documents, index = _id
  h,            \* per in-flight HTTP request: handler position, locals, response
  calls,        \* number of HTTP requests received so far (when budgeted)
  ledgerMark    \* history: per request, the item's available before its approval

vars == <<equipment, requests, h, calls, ledgerMark>>

\* ------------------------------------------------------------ documents
EqIds == 1..MaxEq
ReqIds == 1..MaxReq

\* A deleted document keeps its index (ObjectIds are never reused).
Deleted == [live |-> FALSE, quantity |-> 0, available |-> 0]

Exists(e) == e \in DOMAIN equipment /\ equipment[e].live

\* The schema without `min: 0` on available.
equipmentSchema_noMinimum(quantity, available) ==
  /\ quantity >= 1
  /\ available <= quantity

\* Schema validators of Equipment, run by Equipment.create.
equipmentSchema(quantity, available) ==
  /\ quantity >= 1
  /\ available >= 0
  /\ available <= quantity

\* The overlap filter with strict comparisons: a loan that ends on the day
\* the new one starts is not counted.
OverlapsStrict(r, fromDate, toDate) ==
  /\ r.borrowFromDate < toDate
  /\ r.borrowToDate > fromDate

\* Date-range filter of the overlap query.
Overlaps(r, fromDate, toDate) ==
  /\ r.borrowFromDate <= toDate
  /\ r.borrowToDate >= fromDate

\* The query that counts approved requests only.
overlappingRequests_approvedOnly(equipmentId, fromDate, toDate) ==
  { i \in DOMAIN requests :
      /\ requests[i].equipmentId = equipmentId
      /\ requests[i].status \in {"approved"}
      /\ Overlaps(requests[i], fromDate, toDate) }

\* The query that keeps counting a request after its return.
overlappingRequests_withReturned(equipmentId, fromDate, toDate) ==
  { i \in DOMAIN requests :
      /\ requests[i].equipmentId = equipmentId
      /\ requests[i].status \in {"approved", "pending", "returned"}
      /\ Overlaps(requests[i], fromDate, toDate) }

overlappingRequests(equipmentId, fromDate, toDate) ==
  { i \in DOMAIN requests :
      /\ requests[i].equipmentId = equipmentId
      /\ requests[i].status \in {"approved", "pending"}
      /\ Overlaps(requests[i], fromDate, toDate) }

\* reduce((total, req) => total + req.quantity, 0) over the documents S of reqs
RECURSIVE SumQuantity(_, _)
SumQuantity(reqs, S) ==
  IF S = {} THEN 0
  ELSE LET i == CHOOSE x \in S : TRUE
       IN reqs[i].quantity + SumQuantity(reqs, S \ {i})

totalRequestedQuantity(equipmentId, fromDate, toDate) ==
  SumQuantity(requests, overlappingRequests(equipmentId, fromDate, toDate))

\* Route guards.
\* ------------------------------------------------- checks of the handlers
\* `available > quantity` of addEquipment, `newAvailable > newQuantity` of
\* updateEquipment
exceedsQuantity(available, quantity) == available > quantity

\* The compared value taken from the patch alone, a missing field as it comes.
resulting_patchOnly(patch, stored) == patch

\* The value updateEquipment compares for a field: the patch's, or the stored
\* one when the patch does not carry the field.
resulting(patch, stored) == IF patch # Undefined THEN patch ELSE stored

\* createRequest: !quantity || !notes of the required-fields test
requiredFieldsMissing(quantity, notes) == quantity = 0 \/ ~notes

\* createRequest: Number.isInteger(quantity) && quantity >= 1
positiveWholeNumber(quantity, isInteger) == isInteger /\ quantity >= 1

\* createRequest: fromDate < today
inThePast(fromDate) == fromDate < Today

\* The date-order test that lets a loan end on the day it starts.
notAfterBorrow_strict(fromDate, toDate) == toDate < fromDate

\* createRequest: toDate <= fromDate
notAfterBorrow(fromDate, toDate) == toDate <= fromDate

\* The availability test that refuses a request for all available units.
insufficientAvailable_orEqual(available, quantity) ==
  available <= 0 \/ quantity >= available

\* createRequest: equipment.available <= 0, then quantity > equipment.available
insufficientAvailable(available, quantity) ==
  available <= 0 \/ quantity > available

\* The capacity test that refuses a request filling the item exactly.
capacityExceeded_orEqual(total, quantity, itemQuantity) ==
  total + quantity >= itemQuantity

\* createRequest: totalRequestedQuantity + quantity > equipment.quantity
capacityExceeded(total, quantity, itemQuantity) ==
  total + quantity > itemQuantity

\* The remaining amount reported without subtracting what is promised.
remainingUnits_ignoringCommitted(total, itemQuantity) == itemQuantity

\* createRequest: `Only ${equipment.quantity - totalRequestedQuantity} units ...`
remainingUnits(total, itemQuantity) == itemQuantity - total

\* adminOnly that lets staff through as well.
adminOnly_orStaff(role) == role \in {"admin", "staff"}

adminOnly(role) == role = "admin"
studentOnly(role) == role \in {"student", "staff"}

\* --------------------------------------------------------- handler slots
\* req.user.role and req.body / req.params as the handler received them; a
\* field the handler never reads on its path stays at its default.
NoBody ==
  [ role |-> "", fields |-> "", id |-> 0, quantity |-> Undefined,
    available |-> Undefined, isInteger |-> TRUE, notes |-> TRUE,
    borrowFromDate |-> Undefined, borrowToDate |-> Undefined, valid |-> TRUE ]

\* The slot keeps the received request next to the response only when B.
Received(B, body) == IF B THEN body ELSE NoBody

Idle ==
  [ pc |-> "idle", op |-> "none", requestId |-> 0, equipmentId |-> 0,
    quantity |-> 0, fromDate |-> 0, toDate |-> 0, snapQuantity |-> 0,
    reason |-> "", newAvailable |-> 0, result |-> 0, remaining |-> 0, pre |-> 0,
    body |-> NoBody ]

\* The kept request, with the verdict of the schema on the document built
\* from it.
Validated(body, valid) == IF body = NoBody THEN NoBody ELSE [body EXCEPT !.valid = valid]

\* The same response, the received request kept with it.
With(response, body) == [response EXCEPT !.body = body]

\* The response is sent: nothing of the handler's locals is left but what the
\* client sees (operation, ids, status code) and the history value `pre`.
Respond(op, requestId, equipmentId, code, pre) ==
  [ Idle EXCEPT !.pc = "done", !.op = op, !.requestId = requestId,
                !.equipmentId = equipmentId, !.result = code, !.pre = pre ]

Init ==
  /\ equipment = << >>
  /\ requests = << >>
  /\ h = [p \in Procs |-> Idle]
  /\ calls = 0
  /\ ledgerMark = [r \in ReqIds |-> [set |-> FALSE, value |-> 0]]

\* Any write to item e by something other than markReturned of request `except`
\* ends the "nothing else changed the item since the approval" history.
Touch(e, except) ==
  [r \in ReqIds |->
     IF r \in DOMAIN requests /\ requests[r].equipmentId = e /\ r # except
     THEN [set |-> FALSE, value |-> 0]
     ELSE ledgerMark[r]]

\* ------------------------------------------------------------ equipment
\* POST /api/equipment
addEquipment(p, Q, B) ==
  /\ h[p].pc = "idle"
  /\ \E role \in Roles :
       IF ~adminOnly(role)
       THEN /\ h' = [h EXCEPT ![p] = With(Respond("addEquipment", 0, 0, IF role = "none" THEN 401 ELSE 403, 0),
                Received(B, [NoBody EXCEPT !.role = role]))]
            /\ UNCHANGED <<equipment, requests, ledgerMark>>
       ELSE \E fields \in {"ok", "missing", "invalid"}, quantity \in 0..Q,
               available \in {Undefined} \cup (-1..(Q + 1)) :
         IF fields = "missing" \/ quantity = 0
         THEN /\ h' = [h EXCEPT ![p] = With(Respond("addEquipment", 0, 0, 400, 0),
                  Received(B, [NoBody EXCEPT !.role = role,
                      !.fields = fields, !.quantity = quantity, !.available = available]))]
              /\ UNCHANGED <<equipment, requests, ledgerMark>>
         ELSE IF available = Undefined
         THEN /\ h' = [h EXCEPT ![p] = With(Respond("addEquipment", 0, 0, 400, 0),
                  Received(B, [NoBody EXCEPT !.role = role,
                      !.fields = fields, !.quantity = quantity, !.available = available]))]
              /\ UNCHANGED <<equipment, requests, ledgerMark>>
         ELSE IF exceedsQuantity(available, quantity)
         THEN /\ h' = [h EXCEPT ![p] = With(Respond("addEquipment", 0, 0, 400, 0),
                  Received(B, [NoBody EXCEPT !.role = role,
                      !.fields = fields, !.quantity = quantity, !.available = available]))]
              /\ UNCHANGED <<equipment, requests, ledgerMark>>
         ELSE IF fields = "invalid" \/ ~equipmentSchema(quantity, available)
         THEN /\ h' = [h EXCEPT ![p] = With(Respond("addEquipment", 0, 0, 500, 0),
                  Received(B, [NoBody EXCEPT !.role = role,
                      !.fields = fields, !.quantity = quantity, !.available = available]))]
              /\ UNCHANGED <<equipment, requests, ledgerMark>>
         ELSE /\ Len(equipment) < MaxEq
              /\ equipment' = Append(equipment,
                   [live |-> TRUE, quantity |-> quantity, available |-> available])
              /\ h' = [h EXCEPT ![p] = With(Respond("addEquipment", 0, Len(equipment) + 1, 201, 0),
                       Received(B, [NoBody EXCEPT !.role = role,
                           !.fields = fields, !.quantity = quantity, !.available = available]))]
              /\ UNCHANGED <<requests, ledgerMark>>

\* PUT /api/equipment/:id -- Equipment.findById and the check on the resulting pair
updateEquipment_find(p, Q, B) ==
  /\ h[p].pc = "idle"
  /\ \E role \in Roles :
       IF ~adminOnly(role)
       THEN h' = [h EXCEPT ![p] = With(Respond("updateEquipment", 0, 0, IF role = "none" THEN 401 ELSE 403, 0),
                Received(B, [NoBody EXCEPT !.role = role]))]
       ELSE \E id \in EqIds :
         IF ~Exists(id)
         THEN h' = [h EXCEPT ![p] = With(Respond("updateEquipment", 0, 0, 404, 0),
                  Received(B, [NoBody EXCEPT !.role = role, !.id = id]))]
         ELSE \E quantity \in {Undefined} \cup (0..Q),
                 available \in {Undefined} \cup (-1..(Q + 1)) :
           LET newAvailable == resulting(available, equipment[id].available)
               newQuantity == resulting(quantity, equipment[id].quantity)
           IN IF exceedsQuantity(newAvailable, newQuantity)
              THEN h' = [h EXCEPT ![p] = With(Respond("updateEquipment", 0, id, 400, 0),
                       Received(B, [NoBody EXCEPT !.role = role,
                           !.id = id, !.quantity = quantity, !.available = available]))]
              ELSE h' = [h EXCEPT ![p] =
                     With([Idle EXCEPT !.pc = "upd_write", !.op = "updateEquipment",
                                  !.equipmentId = id,
                                  !.quantity = quantity, !.newAvailable = available],
                                           Received(B, [NoBody EXCEPT !.role = role,
                                               !.id = id, !.quantity = quantity,
                                               !.available = available]))]
  /\ UNCHANGED <<equipment, requests, ledgerMark>>

\* Equipment.findByIdAndUpdate(id, {quantity?, available?}, {runValidators: false})
updateEquipment_write(p) ==
  /\ h[p].pc = "upd_write"
  /\ LET id == h[p].equipmentId
         old == equipment[id]
         new == [live |-> TRUE,
                 quantity |-> IF h[p].quantity # Undefined THEN h[p].quantity ELSE old.quantity,
                 available |-> IF h[p].newAvailable # Undefined THEN h[p].newAvailable ELSE old.available]
     IN IF Exists(id)
        THEN /\ equipment' = [equipment EXCEPT ![id] = new]
             /\ ledgerMark' = IF new = old THEN ledgerMark ELSE Touch(id, 0)
        ELSE UNCHANGED <<equipment, ledgerMark>>
  /\ h' = [h EXCEPT ![p] = With(Respond("updateEquipment", 0, h[p].equipmentId, 200, 0), h[p].body)]
  /\ UNCHANGED requests

\* deleteEquipment that refuses an item with pending or approved requests.
deleteEquipment_guarded(p, B) ==
  /\ h[p].pc = "idle"
  /\ \E role \in Roles :
       IF ~adminOnly(role)
       THEN /\ h' = [h EXCEPT ![p] = With(Respond("deleteEquipment", 0, 0, IF role = "none" THEN 401 ELSE 403, 0),
                Received(B, [NoBody EXCEPT !.role = role]))]
            /\ UNCHANGED <<equipment, requests, ledgerMark>>
       ELSE \E id \in EqIds :
         IF ~Exists(id)
         THEN /\ h' = [h EXCEPT ![p] = With(Respond("deleteEquipment", 0, 0, 404, 0),
                  Received(B, [NoBody EXCEPT !.role = role, !.id = id]))]
              /\ UNCHANGED <<equipment, requests, ledgerMark>>
         ELSE IF \E r \in DOMAIN requests : /\ requests[r].equipmentId = id
                                            /\ requests[r].status \in {"pending", "approved"}
         THEN /\ h' = [h EXCEPT ![p] = With(Respond("deleteEquipment", 0, id, 400, 0),
                  Received(B, [NoBody EXCEPT !.role = role, !.id = id]))]
              /\ UNCHANGED <<equipment, requests, ledgerMark>>
         ELSE /\ equipment' = [equipment EXCEPT ![id] = Deleted]
              /\ ledgerMark' = Touch(id, 0)
              /\ h' = [h EXCEPT ![p] = With(Respond("deleteEquipment", 0, id, 200, 0),
                       Received(B, [NoBody EXCEPT !.role = role, !.id = id]))]
              /\ UNCHANGED requests

\* DELETE /api/equipment/:id -- Equipment.findByIdAndDelete
deleteEquipment(p, B) ==
  /\ h[p].pc = "idle"
  /\ \E role \in Roles :
       IF ~adminOnly(role)
       THEN /\ h' = [h EXCEPT ![p] = With(Respond("deleteEquipment", 0, 0, IF role = "none" THEN 401 ELSE 403, 0),
                Received(B, [NoBody EXCEPT !.role = role]))]
            /\ UNCHANGED <<equipment, requests, ledgerMark>>
       ELSE \E id \in EqIds :
         IF ~Exists(id)
         THEN /\ h' = [h EXCEPT ![p] = With(Respond("deleteEquipment", 0, 0, 404, 0),
                  Received(B, [NoBody EXCEPT !.role = role, !.id = id]))]
              /\ UNCHANGED <<equipment, requests, ledgerMark>>
         ELSE /\ equipment' = [equipment EXCEPT ![id] = Deleted]
              /\ ledgerMark' = Touch(id, 0)
              /\ h' = [h EXCEPT ![p] = With(Respond("deleteEquipment", 0, id, 200, 0),
                       Received(B, [NoBody EXCEPT !.role = role, !.id = id]))]
              /\ UNCHANGED requests

\* ------------------------------------------------------ borrow requests
\* Calls of createRequest that are about to insert.
CreatesInFlight == Cardinality({p \in Procs : h[p].pc = "cr_insert"})

\* POST /api/requests/create -- validation, Equipment.findById, availability checks
createRequest_validate(p, Q, D, B) ==
  /\ h[p].pc = "idle"
  /\ \E role \in Roles :
       IF ~studentOnly(role)
       THEN h' = [h EXCEPT ![p] = With(Respond("createRequest", 0, 0, IF role = "none" THEN 401 ELSE 403, 0),
                Received(B, [NoBody EXCEPT !.role = role]))]
       ELSE \E quantity \in 0..(Q + 1), isInteger \in BOOLEAN, notes \in BOOLEAN :
         IF requiredFieldsMissing(quantity, notes)
         THEN h' = [h EXCEPT ![p] = With(Respond("createRequest", 0, 0, 400, 0),
                  Received(B, [NoBody EXCEPT !.role = role,
                      !.quantity = quantity, !.isInteger = isInteger, !.notes = notes]))]
         ELSE IF ~positiveWholeNumber(quantity, isInteger)
         THEN h' = [h EXCEPT ![p] = With(Respond("createRequest", 0, 0, 400, 0),
                  Received(B, [NoBody EXCEPT !.role = role,
                      !.quantity = quantity, !.isInteger = isInteger, !.notes = notes]))]
         ELSE \E borrowFromDate \in 0..D, borrowToDate \in 0..D :
           IF inThePast(borrowFromDate)
           THEN h' = [h EXCEPT ![p] = With(Respond("createRequest", 0, 0, 400, 0),
                    Received(B, [NoBody EXCEPT !.role = role,
                        !.quantity = quantity, !.isInteger = isInteger, !.notes = notes,
                        !.borrowFromDate = borrowFromDate, !.borrowToDate = borrowToDate]))]
           ELSE IF notAfterBorrow(borrowFromDate, borrowToDate)
           THEN h' = [h EXCEPT ![p] = With(Respond("createRequest", 0, 0, 400, 0),
                    Received(B, [NoBody EXCEPT !.role = role,
                        !.quantity = quantity, !.isInteger = isInteger, !.notes = notes,
                        !.borrowFromDate = borrowFromDate, !.borrowToDate = borrowToDate]))]
           ELSE \E equipmentId \in EqIds :
             IF ~Exists(equipmentId)
             THEN h' = [h EXCEPT ![p] = With(Respond("createRequest", 0, 0, 404, 0),
                      Received(B, [NoBody EXCEPT !.role = role,
                          !.quantity = quantity, !.isInteger = isInteger, !.notes = notes,
                          !.borrowFromDate = borrowFromDate, !.borrowToDate = borrowToDate,
                          !.id = equipmentId]))]
             ELSE IF insufficientAvailable(equipment[equipmentId].available, quantity)
             THEN h' = [h EXCEPT ![p] = With(Respond("createRequest", 0, equipmentId, 400, 0),
                      Received(B, [NoBody EXCEPT !.role = role,
                          !.quantity = quantity, !.isInteger = isInteger, !.notes = notes,
                          !.borrowFromDate = borrowFromDate, !.borrowToDate = borrowToDate,
                          !.id = equipmentId]))]
             ELSE /\ borrowToDate - borrowFromDate <= MaxSpan
                  /\ h' = [h EXCEPT ![p] =
                       With([Idle EXCEPT !.pc = "cr_overlap", !.op = "createRequest",
                                    !.equipmentId = equipmentId, !.quantity = quantity,
                                    !.fromDate = borrowFromDate, !.toDate = borrowToDate,
                                    !.snapQuantity = equipment[equipmentId].quantity],
                                             Received(B, [NoBody EXCEPT !.role = role,
                                                 !.quantity = quantity, !.isInteger = isInteger,
                                                 !.notes = notes,
                                                 !.borrowFromDate = borrowFromDate,
                                                 !.borrowToDate = borrowToDate,
                                                 !.id = equipmentId]))]
  /\ UNCHANGED <<equipment, requests, ledgerMark>>

\* Request.find(overlapping), the sum, and the capacity check
createRequest_overlap(p) ==
  /\ h[p].pc = "cr_overlap"
  /\ LET total == totalRequestedQuantity(h[p].equipmentId, h[p].fromDate, h[p].toDate)
     IN IF capacityExceeded(total, h[p].quantity, h[p].snapQuantity)
        THEN h' = [h EXCEPT ![p] =
               With([Respond("createRequest", 0, h[p].equipmentId, 400, 0)
                  EXCEPT !.remaining = remainingUnits(total, h[p].snapQuantity),
                         !.quantity = h[p].quantity,
                         !.fromDate = h[p].fromDate, !.toDate = h[p].toDate], h[p].body)]
        ELSE /\ Len(requests) + CreatesInFlight < MaxReq
             /\ h' = [h EXCEPT ![p].pc = "cr_insert"]
  /\ UNCHANGED <<equipment, requests, ledgerMark>>

\* Request.create({..., status: 'pending'}); the schema validates the document
\* (studentName, studentEmail, equipmentName required, notes <= 500 characters).
\* The insert that also reserves the units on the item at request time.
createRequest_insert_reserving(p) ==
  /\ h[p].pc = "cr_insert"
  /\ \E valid \in BOOLEAN :
       IF ~valid
       THEN /\ h' = [h EXCEPT ![p] = With(Respond("createRequest", 0, h[p].equipmentId, 400, 0), Validated(h[p].body, valid))]
            /\ UNCHANGED <<requests, equipment, ledgerMark>>
       ELSE /\ requests' = Append(requests,
                 [ equipmentId |-> h[p].equipmentId, quantity |-> h[p].quantity,
                   borrowFromDate |-> h[p].fromDate, borrowToDate |-> h[p].toDate,
                   status |-> "pending", approvedBy |-> FALSE,
                   rejectionReason |-> Null, actualReturnDate |-> FALSE ])
            /\ h' = [h EXCEPT ![p] = With(Respond("createRequest", Len(requests) + 1, h[p].equipmentId, 201, 0), Validated(h[p].body, valid))]
            /\ IF Exists(h[p].equipmentId)
               THEN /\ equipment' = [equipment EXCEPT ![h[p].equipmentId].available = @ - h[p].quantity]
                    /\ ledgerMark' = Touch(h[p].equipmentId, 0)
               ELSE UNCHANGED <<equipment, ledgerMark>>

createRequest_insert(p) ==
  /\ h[p].pc = "cr_insert"
  /\ \E valid \in BOOLEAN :
       IF ~valid
       THEN /\ h' = [h EXCEPT ![p] = With(Respond("createRequest", 0, h[p].equipmentId, 400, 0), Validated(h[p].body, valid))]
            /\ UNCHANGED requests
       ELSE /\ requests' = Append(requests,
                 [ equipmentId |-> h[p].equipmentId, quantity |-> h[p].quantity,
                   borrowFromDate |-> h[p].fromDate, borrowToDate |-> h[p].toDate,
                   status |-> "pending", approvedBy |-> FALSE,
                   rejectionReason |-> Null, actualReturnDate |-> FALSE ])
            /\ h' = [h EXCEPT ![p] = With(Respond("createRequest", Len(requests) + 1, h[p].equipmentId, 201, 0), Validated(h[p].body, valid))]
  /\ UNCHANGED <<equipment, ledgerMark>>

\* Available of the item of request r as a caller sees it when the call starts.
AvailableOf(r) ==
  IF r \in DOMAIN requests /\ Exists(requests[r].equipmentId)
  THEN equipment[requests[r].equipmentId].available
  ELSE 0

\* approveRequest without the status check: any stored request goes on.
approveRequest_find_anyStatus(p, B) ==
  /\ h[p].pc = "idle"
  /\ \E role \in Roles :
       IF ~adminOnly(role)
       THEN h' = [h EXCEPT ![p] = With(Respond("approveRequest", 0, 0, IF role = "none" THEN 401 ELSE 403, 0),
                Received(B, [NoBody EXCEPT !.role = role]))]
       ELSE \E requestId \in ReqIds :
       IF requestId \notin DOMAIN requests
       THEN h' = [h EXCEPT ![p] = With(Respond("approveRequest", 0, 0, 404, 0),
                Received(B, [NoBody EXCEPT !.role = role, !.id = requestId]))]
       ELSE h' = [h EXCEPT ![p] =
              With([Idle EXCEPT !.pc = "ap_check", !.op = "approveRequest",
                           !.requestId = requestId,
                           !.equipmentId = requests[requestId].equipmentId,
                           !.quantity = requests[requestId].quantity,
                           !.pre = AvailableOf(requestId)],
                                    Received(B, [NoBody EXCEPT !.role = role, !.id = requestId]))]
  /\ UNCHANGED <<equipment, requests, ledgerMark>>

\* POST /api/requests/:requestId/approve -- Request.findById and the status check
approveRequest_find(p, B) ==
  /\ h[p].pc = "idle"
  /\ \E role \in Roles :
       IF ~adminOnly(role)
       THEN h' = [h EXCEPT ![p] = With(Respond("approveRequest", 0, 0, IF role = "none" THEN 401 ELSE 403, 0),
                Received(B, [NoBody EXCEPT !.role = role]))]
       ELSE \E requestId \in ReqIds :
       IF requestId \notin DOMAIN requests
       THEN h' = [h EXCEPT ![p] = With(Respond("approveRequest", 0, 0, 404, 0),
                Received(B, [NoBody EXCEPT !.role = role, !.id = requestId]))]
       ELSE IF requests[requestId].status # "pending"
       THEN h' = [h EXCEPT ![p] = With(Respond("approveRequest", requestId, 0, 400, 0),
                Received(B, [NoBody EXCEPT !.role = role, !.id = requestId]))]
       ELSE h' = [h EXCEPT ![p] =
              With([Idle EXCEPT !.pc = "ap_check", !.op = "approveRequest",
                           !.requestId = requestId,
                           !.equipmentId = requests[requestId].equipmentId,
                           !.quantity = requests[requestId].quantity,
                           !.pre = AvailableOf(requestId)],
                                    Received(B, [NoBody EXCEPT !.role = role, !.id = requestId]))]
  /\ UNCHANGED <<equipment, requests, ledgerMark>>

\* The re-check that only looks whether the item exists, not at its stock.
approveRequest_check_noStock(p) ==
  /\ h[p].pc = "ap_check"
  /\ IF ~Exists(h[p].equipmentId)
     THEN h' = [h EXCEPT ![p] = With(Respond("approveRequest", h[p].requestId, h[p].equipmentId, 400, h[p].pre), h[p].body)]
     ELSE h' = [h EXCEPT ![p].pc = "ap_dec"]
  /\ UNCHANGED <<equipment, requests, ledgerMark>>

\* Equipment.findById and the re-check of available
approveRequest_check(p) ==
  /\ h[p].pc = "ap_check"
  /\ IF ~Exists(h[p].equipmentId) \/ equipment[h[p].equipmentId].available < h[p].quantity
     THEN h' = [h EXCEPT ![p] = With(Respond("approveRequest", h[p].requestId, h[p].equipmentId, 400, h[p].pre), h[p].body)]
     ELSE h' = [h EXCEPT ![p].pc = "ap_dec"]
  /\ UNCHANGED <<equipment, requests, ledgerMark>>

\* The decrement sent as a conditional update: it applies only while the
\* item still has the requested units.
approveRequest_dec_ifEnough(p) ==
  /\ h[p].pc = "ap_dec"
  /\ LET e == h[p].equipmentId
     IN IF Exists(e) /\ equipment[e].available >= h[p].quantity
        THEN /\ equipment' = [equipment EXCEPT ![e].available = @ - h[p].quantity]
             /\ ledgerMark' = Touch(e, 0)
        ELSE UNCHANGED <<equipment, ledgerMark>>
  /\ h' = [h EXCEPT ![p].pc = "ap_save"]
  /\ UNCHANGED requests

\* The decrement that takes one unit whatever the requested quantity.
approveRequest_dec_one(p) ==
  /\ h[p].pc = "ap_dec"
  /\ LET e == h[p].equipmentId
     IN IF Exists(e)
        THEN /\ equipment' = [equipment EXCEPT ![e].available = @ - 1]
             /\ ledgerMark' = Touch(e, 0)
        ELSE UNCHANGED <<equipment, ledgerMark>>
  /\ h' = [h EXCEPT ![p].pc = "ap_save"]
  /\ UNCHANGED requests

\* equipment.updateOne({$inc: {available: -request.quantity}})
approveRequest_dec(p) ==
  /\ h[p].pc = "ap_dec"
  /\ LET e == h[p].equipmentId
     IN IF Exists(e)
        THEN /\ equipment' = [equipment EXCEPT ![e].available = @ - h[p].quantity]
             /\ ledgerMark' = Touch(e, 0)
        ELSE UNCHANGED <<equipment, ledgerMark>>
  /\ h' = [h EXCEPT ![p].pc = "ap_save"]
  /\ UNCHANGED requests

\* requestSchema.methods.approve: sets the fields and saves; save() validates
\* (approvalNotes <= 300 characters) and writes the modified paths.
approve(r, valid) ==
  IF valid
  THEN [requests EXCEPT ![r].status = "approved", ![r].approvedBy = TRUE]
  ELSE requests

approveRequest_save(p) ==
  /\ h[p].pc = "ap_save"
  /\ \E valid \in BOOLEAN :
       /\ requests' = approve(h[p].requestId, valid)
       /\ h' = [h EXCEPT ![p] = With(Respond("approveRequest", h[p].requestId, h[p].equipmentId,
                                        IF valid THEN 200 ELSE 500, h[p].pre), h[p].body)]
       /\ ledgerMark' = IF valid
                        THEN [ledgerMark EXCEPT ![h[p].requestId] = [set |-> TRUE, value |-> h[p].pre]]
                        ELSE ledgerMark
  /\ UNCHANGED equipment

\* POST /api/requests/:requestId/reject -- Request.findById and the status check
rejectRequest_find(p, B) ==
  /\ h[p].pc = "idle"
  /\ \E role \in Roles :
       IF ~adminOnly(role)
       THEN h' = [h EXCEPT ![p] = With(Respond("rejectRequest", 0, 0, IF role = "none" THEN 401 ELSE 403, 0),
                Received(B, [NoBody EXCEPT !.role = role]))]
       ELSE \E requestId \in ReqIds :
       IF requestId \notin DOMAIN requests
       THEN h' = [h EXCEPT ![p] = With(Respond("rejectRequest", 0, 0, 404, 0),
                Received(B, [NoBody EXCEPT !.role = role, !.id = requestId]))]
       ELSE IF requests[requestId].status # "pending"
       THEN h' = [h EXCEPT ![p] = With(Respond("rejectRequest", requestId, 0, 400, 0),
                Received(B, [NoBody EXCEPT !.role = role, !.id = requestId]))]
       ELSE h' = [h EXCEPT ![p] =
              With([Idle EXCEPT !.pc = "rj_save", !.op = "rejectRequest",
                           !.requestId = requestId,
                           !.equipmentId = requests[requestId].equipmentId],
                                    Received(B, [NoBody EXCEPT !.role = role, !.id = requestId]))]
  /\ UNCHANGED <<equipment, requests, ledgerMark>>

\* requestSchema.methods.reject (rejectionReason <= 300 characters)
\* reject() that sets the status and forgets the reason.
reject_statusOnly(r, reason) ==
  IF ReasonLength(reason) <= MaxReasonLength
  THEN [requests EXCEPT ![r].status = "rejected"]
  ELSE requests

reject(r, reason) ==
  IF ReasonLength(reason) <= MaxReasonLength
  THEN [requests EXCEPT ![r].status = "rejected", ![r].rejectionReason = reason]
  ELSE requests

rejectRequest_save(p) ==
  /\ h[p].pc = "rj_save"
  /\ \E reason \in Reasons :
       /\ requests' = reject(h[p].requestId, reason)
       /\ h' = [h EXCEPT ![p] =
            With([Respond("rejectRequest", h[p].requestId, h[p].equipmentId,
                     IF ReasonLength(reason) <= MaxReasonLength THEN 200 ELSE 500, 0)
             EXCEPT !.reason = reason], h[p].body)]
  /\ UNCHANGED <<equipment, ledgerMark>>

\* POST /api/requests/:requestId/return -- Request.findById and the status check
markReturned_find(p, B) ==
  /\ h[p].pc = "idle"
  /\ \E role \in Roles :
       IF ~adminOnly(role)
       THEN h' = [h EXCEPT ![p] = With(Respond("markReturned", 0, 0, IF role = "none" THEN 401 ELSE 403, 0),
                Received(B, [NoBody EXCEPT !.role = role]))]
       ELSE \E requestId \in ReqIds :
       IF requestId \notin DOMAIN requests
       THEN h' = [h EXCEPT ![p] = With(Respond("markReturned", 0, 0, 404, 0),
                Received(B, [NoBody EXCEPT !.role = role, !.id = requestId]))]
       ELSE IF requests[requestId].status # "approved"
       THEN h' = [h EXCEPT ![p] = With(Respond("markReturned", requestId, 0, 400, 0),
                Received(B, [NoBody EXCEPT !.role = role, !.id = requestId]))]
       ELSE h' = [h EXCEPT ![p] =
              With([Idle EXCEPT !.pc = "rt_equip", !.op = "markReturned",
                           !.requestId = requestId,
                           !.equipmentId = requests[requestId].equipmentId,
                           !.quantity = requests[requestId].quantity],
                                    Received(B, [NoBody EXCEPT !.role = role, !.id = requestId]))]
  /\ UNCHANGED <<equipment, requests, ledgerMark>>

\* Equipment.findById: `if (equipment)` decides whether the increment is sent
\* The lookup that refuses the return when the item is gone.
markReturned_equip_required(p) ==
  /\ h[p].pc = "rt_equip"
  /\ h' = [h EXCEPT ![p] =
            IF Exists(h[p].equipmentId)
            THEN [h[p] EXCEPT !.pc = "rt_inc"]
            ELSE With(Respond("markReturned", h[p].requestId, h[p].equipmentId, 404, 0),
                      h[p].body)]
  /\ UNCHANGED <<equipment, requests, ledgerMark>>

markReturned_equip(p) ==
  /\ h[p].pc = "rt_equip"
  /\ h' = [h EXCEPT ![p].pc = IF Exists(h[p].equipmentId) THEN "rt_inc" ELSE "rt_save"]
  /\ UNCHANGED <<equipment, requests, ledgerMark>>

\* The increment that gives back one unit whatever the requested quantity.
markReturned_inc_one(p) ==
  /\ h[p].pc = "rt_inc"
  /\ LET e == h[p].equipmentId
     IN IF Exists(e)
        THEN /\ equipment[e].available + 1 <= MaxAvail
             /\ equipment' = [equipment EXCEPT ![e].available = @ + 1]
             /\ ledgerMark' = Touch(e, h[p].requestId)
        ELSE UNCHANGED <<equipment, ledgerMark>>
  /\ h' = [h EXCEPT ![p].pc = "rt_save"]
  /\ UNCHANGED requests

\* equipment.updateOne({$inc: {available: request.quantity}})
markReturned_inc(p) ==
  /\ h[p].pc = "rt_inc"
  /\ LET e == h[p].equipmentId
     IN IF Exists(e)
        THEN /\ equipment[e].available + h[p].quantity <= MaxAvail
             /\ equipment' = [equipment EXCEPT ![e].available = @ + h[p].quantity]
             /\ ledgerMark' = Touch(e, h[p].requestId)
        ELSE UNCHANGED <<equipment, ledgerMark>>
  /\ h' = [h EXCEPT ![p].pc = "rt_save"]
  /\ UNCHANGED requests

\* requestSchema.methods.markReturned (returnedCondition in the enum,
\* returnNotes <= 300 characters)
markReturnedDoc(r, valid) ==
  IF valid
  THEN [requests EXCEPT ![r].status = "returned", ![r].actualReturnDate = TRUE]
  ELSE requests

markReturned_save(p) ==
  /\ h[p].pc = "rt_save"
  /\ \E valid \in BOOLEAN :
       /\ requests' = markReturnedDoc(h[p].requestId, valid)
       /\ h' = [h EXCEPT ![p] = With(Respond("markReturned", h[p].requestId, h[p].equipmentId,
                                        IF valid THEN 200 ELSE 500, 0), h[p].body)]
       /\ ledgerMark' = IF valid THEN ledgerMark
                        ELSE [ledgerMark EXCEPT ![h[p].requestId] = [set |-> FALSE, value |-> 0]]
  /\ UNCHANGED equipment

\* The response has been delivered; the slot serves the next HTTP request.
Finish(p) ==
  /\ h[p].pc = "done"
  /\ h' = [h EXCEPT ![p] = Idle]
  /\ ledgerMark' = IF h[p].op = "markReturned" /\ h[p].result = 200
                   THEN [ledgerMark EXCEPT ![h[p].requestId] = [set |-> FALSE, value |-> 0]]
                   ELSE ledgerMark
  /\ UNCHANGED <<equipment, requests>>

\* A new HTTP request arrives (N = 0: no budget on their number).
Begin(N) == IF N = 0 THEN UNCHANGED calls ELSE calls < N /\ calls' = calls + 1

Step(p, Q, D, N, B) ==
  \/ Begin(N) /\ addEquipment(p, Q, B)
  \/ Begin(N) /\ updateEquipment_find(p, Q, B)
  \/ UNCHANGED calls /\ updateEquipment_write(p)
  \/ Begin(N) /\ deleteEquipment(p, B)
  \/ Begin(N) /\ createRequest_validate(p, Q, D, B)
  \/ UNCHANGED calls /\ createRequest_overlap(p)
  \/ UNCHANGED calls /\ createRequest_insert(p)
  \/ Begin(N) /\ approveRequest_find(p, B)
  \/ UNCHANGED calls /\ approveRequest_check(p)
  \/ UNCHANGED calls /\ approveRequest_dec(p)
  \/ UNCHANGED calls /\ approveRequest_save(p)
  \/ Begin(N) /\ rejectRequest_find(p, B)
  \/ UNCHANGED calls /\ rejectRequest_save(p)
  \/ Begin(N) /\ markReturned_find(p, B)
  \/ UNCHANGED calls /\ markReturned_equip(p)
  \/ UNCHANGED calls /\ markReturned_inc(p)
  \/ UNCHANGED calls /\ markReturned_save(p)
  \/ UNCHANGED calls /\ Finish(p)

\* Concurrent handlers, clients sending quantities up to ConcQty.
Next == \E p \in Procs : Step(p, ConcQty, ConcDay, MaxCalls, FALSE)

Spec == Init /\ [][Next]_vars

\* Operations executed one at a time: a handler runs from its call to its
\* response while every other slot is idle.
SeqNext == Step(1, MaxQty, MaxDay, 0, FALSE)

SeqSpec == Init /\ [][SeqNext]_vars

\* Operations executed one at a time, each slot keeping the request it
\* received (role, parameters, body) until its response is delivered.
CallNext == Step(1, MaxQty, MaxDay, 0, TRUE)

\* Calls run one at a time on a catalogue no administrator edits or deletes
\* from, every item added with all of its units available.
LoanNext ==
  \/ /\ Begin(0)
     /\ addEquipment(1, MaxQty, FALSE)
     /\ \A e \in DOMAIN equipment' \ DOMAIN equipment :
          equipment'[e].available = equipment'[e].quantity
  \/ Begin(0) /\ createRequest_validate(1, MaxQty, MaxDay, FALSE)
  \/ UNCHANGED calls /\ createRequest_overlap(1)
  \/ UNCHANGED calls /\ createRequest_insert(1)
  \/ Begin(0) /\ approveRequest_find(1, FALSE)
  \/ UNCHANGED calls /\ approveRequest_check(1)
  \/ UNCHANGED calls /\ approveRequest_dec(1)
  \/ UNCHANGED calls /\ approveRequest_save(1)
  \/ Begin(0) /\ rejectRequest_find(1, FALSE)
  \/ UNCHANGED calls /\ rejectRequest_save(1)
  \/ Begin(0) /\ markReturned_find(1, FALSE)
  \/ UNCHANGED calls /\ markReturned_equip(1)
  \/ UNCHANGED calls /\ markReturned_inc(1)
  \/ UNCHANGED calls /\ markReturned_save(1)
  \/ UNCHANGED calls /\ Finish(1)

CallSpec == Init /\ [][CallNext]_vars

LoanSpec == Init /\ [][LoanNext]_vars

\* Calls run one at a time, with administrators who keep working: a call in
\* flight proceeds (the event loop resumes every await), every request that
\* is pending or approved again and again gets a reject or a return call
\* that passes the status check, and of those calls one sooner or later
\* carries notes the schema accepts.
LiveNext == Step(1, ConcQty, ConcDay, 0, FALSE)

Proceeds == LiveNext /\ h[1].pc # "idle"

Resolves(r) ==
  /\ LiveNext
  /\ h[1].pc = "idle"
  /\ h'[1].requestId = r
  /\ h'[1].pc \in {"rj_save", "rt_equip"}

Settles(r) ==
  /\ LiveNext
  /\ h[1].pc \in {"rj_save", "rt_save"}
  /\ h[1].requestId = r
  /\ h'[1].result = 200

LiveSpec ==
  /\ Init /\ [][LiveNext]_vars
  /\ WF_vars(Proceeds)
  /\ \A r \in ReqIds : SF_vars(Resolves(r)) /\ SF_vars(Settles(r))

\* ======================================================================
\* Properties
\* ======================================================================
Lifecycle == {"approveRequest", "rejectRequest", "markReturned"}

\* p has just answered (this step sent its response).
Answers(p) == h[p].pc # "done" /\ h'[p].pc = "done"

\* Units of item e promised (pending or approved) for day t, in database (reqs).
CommittedOn(reqs, e, t) ==
  SumQuantity(reqs, { i \in DOMAIN reqs :
                        /\ reqs[i].equipmentId = e
                        /\ reqs[i].status \in {"pending", "approved"}
                        /\ reqs[i].borrowFromDate <= t
                        /\ t <= reqs[i].borrowToDate })

\* No day on which item e is promised beyond its quantity.
WithinCapacity(eqs, reqs, e) ==
  \A t \in 0..MaxDay : CommittedOn(reqs, e, t) <= eqs[e].quantity

\* C1: every equipment item satisfies 0 <= available <= quantity in every
\* reachable state, whatever the interleaving of the handlers.
C1_LedgerBounds ==
  \A e \in DOMAIN equipment :
    equipment[e].live =>
      /\ 0 <= equipment[e].available
      /\ equipment[e].available <= equipment[e].quantity

\* C2: a request's stored status only moves pending -> approved -> returned
\* or pending -> rejected; rejected and returned never change.
C2_StatusOneWay ==
  [][\A r \in DOMAIN requests :
       requests'[r].status # requests[r].status =>
         <<requests[r].status, requests'[r].status>> \in
           { <<"pending", "approved">>, <<"pending", "rejected">>,
             <<"approved", "returned">> }]_vars

\* C3 (as stated): after any sequence of completed operations, on every day
\* the pending and approved requests of an item sum to at most its quantity.
C3_CapacityAlways ==
  (\A p \in Procs : h[p].pc \in {"idle", "done"}) =>
    \A e \in DOMAIN equipment : equipment[e].live => WithinCapacity(equipment, requests, e)

\* An updateEquipment write that lowers the quantity of item e.
LowersQuantity(e) ==
  \E p \in Procs : /\ h[p].pc = "upd_write"
                   /\ h'[p].pc = "done"
                   /\ h[p].equipmentId = e
                   /\ equipment'[e].quantity < equipment[e].quantity

\* C3 (amended): with operations executed one at a time, every step other
\* than an updateEquipment write that lowers the item's quantity keeps each
\* existing item within capacity on every day.
C3_CapacityKept ==
  [][\A e \in DOMAIN equipment :
       ( /\ equipment[e].live
         /\ equipment'[e].live
         /\ WithinCapacity(equipment, requests, e)
         /\ ~LowersQuantity(e) )
       => WithinCapacity(equipment', requests', e)]_vars

\* C3 witness: an item promised exactly up to its quantity on some day by two
\* requests, every handler complete.
C3_Witness ==
  /\ \A p \in Procs : h[p].pc \in {"idle", "done"}
  /\ \E e \in DOMAIN equipment, t \in 0..MaxDay :
       /\ equipment[e].live
       /\ CommittedOn(requests, e, t) = equipment[e].quantity
       /\ Cardinality({ i \in DOMAIN requests :
                          /\ requests[i].equipmentId = e
                          /\ requests[i].status \in {"pending", "approved"}
                          /\ requests[i].borrowFromDate <= t
                          /\ t <= requests[i].borrowToDate }) = 2

\* C4: concurrent createRequest calls never get more accepted than the item
\* holds: the insert of an accepted request never takes an item, whose
\* quantity is still the one the call read, from within capacity to beyond it.
C4_ConcurrentCreatesWithinCapacity ==
  [][\A p \in Procs :
       LET e == h[p].equipmentId
       IN ( /\ h[p].pc = "cr_insert"
            /\ Answers(p)
            /\ h'[p].result = 201
            /\ Exists(e)
            /\ equipment[e].quantity = h[p].snapQuantity
            /\ WithinCapacity(equipment, requests, e) )
          => WithinCapacity(equipment', requests', e)]_vars

\* C5: of two approveRequest calls on the same request, at most one answers
\* with success (the decrement is applied once).
C5_OneApprovalSucceeds ==
  \A p, q \in Procs :
    ( /\ p # q
      /\ h[p].pc = "done" /\ h[p].op = "approveRequest" /\ h[p].result = 200
      /\ h[q].pc = "done" /\ h[q].op = "approveRequest"
      /\ h[q].requestId = h[p].requestId )
    => h[q].result # 200

\* p is done with a call of op on request r that answered code.
Answered(p, op, code) ==
  /\ h[p].pc = "done"
  /\ h[p].op = op
  /\ h[p].result = code
  /\ h[p].requestId \in DOMAIN requests

\* C6: with operations run one at a time, a successful markReturned on a
\* request whose approval succeeded, no other write to the item since that
\* approval, leaves the item's available at its value before the approval.
C6_RoundTrip ==
  \A p \in Procs :
    (Answered(p, "markReturned", 200) /\ ledgerMark[h[p].requestId].set)
    => /\ Exists(h[p].equipmentId)
       /\ equipment[h[p].equipmentId].available = ledgerMark[h[p].requestId].value

\* C6 witness: a return of two approved units has succeeded with the item
\* untouched since the approval.
C6_Witness ==
  \E p \in Procs :
    /\ Answered(p, "markReturned", 200)
    /\ ledgerMark[h[p].requestId].set
    /\ requests[h[p].requestId].quantity = 2

\* The status a lifecycle operation starts from.
SourceStatus(op) == IF op = "markReturned" THEN "approved" ELSE "pending"

\* C7: a lifecycle operation received for a stored request whose status is
\* not the operation's source status answers 400 at once and changes neither
\* the requests nor the equipment.
C7_WrongStatusRefused ==
  [][\A p \in Procs, r \in DOMAIN requests :
       ( /\ h[p].pc = "idle"
         /\ h'[p].op \in Lifecycle
         /\ h'[p].requestId = r
         /\ requests[r].status # SourceStatus(h'[p].op) )
       => /\ h'[p].pc = "done"
          /\ h'[p].result = 400
          /\ UNCHANGED <<equipment, requests>>]_vars

\* C7 witness: a lifecycle operation has been refused at its status check,
\* its request stored with a status that is not the one it starts from.
C7_Witness ==
  \E p \in Procs :
    /\ h[p].op \in Lifecycle
    /\ h[p].result = 400
    /\ h[p].pc = "done"
    /\ h[p].equipmentId = 0
    /\ h[p].requestId \in DOMAIN requests
    /\ requests[h[p].requestId].status # SourceStatus(h[p].op)

\* C8: when approveRequest re-reads the item of its pending request and the
\* item is gone or has fewer available units than requested, the call
\* answers 400 and writes neither the request nor the equipment.
C8_ApproveRefusedWithoutStock ==
  [][\A p \in Procs :
       ( /\ h[p].pc = "ap_check"
         /\ h'[p] # h[p]
         /\ \/ ~Exists(h[p].equipmentId)
            \/ equipment[h[p].equipmentId].available < h[p].quantity )
       => /\ h'[p].pc = "done"
          /\ h'[p].result = 400
          /\ UNCHANGED <<equipment, requests>>]_vars

\* C8 witness: an approval was refused at the stock check and its request
\* is still pending.
C8_Witness ==
  \E p \in Procs :
    /\ Answered(p, "approveRequest", 400)
    /\ h[p].equipmentId # 0
    /\ requests[h[p].requestId].status = "pending"

\* C9: with operations run one at a time, a successful approveRequest leaves
\* the request approved and the item's available lower, by the request's
\* quantity, than it was when the call arrived.
C9_ApproveDecrements ==
  \A p \in Procs :
    Answered(p, "approveRequest", 200)
    => /\ requests[h[p].requestId].status = "approved"
       /\ Exists(h[p].equipmentId)
       /\ equipment[h[p].equipmentId].available
            = h[p].pre - requests[h[p].requestId].quantity

\* C9 witness: a request for two units has been approved.
C9_Witness ==
  \E p \in Procs :
    /\ Answered(p, "approveRequest", 200)
    /\ requests[h[p].requestId].quantity = 2

\* p's rejectRequest, past its status check, saves and answers in this step.
Rejects(p) == h[p].pc = "rj_save" /\ h'[p].pc = "done"

\* C10 (as stated): rejectRequest on a pending request sets the status to
\* rejected, records the reason and changes no equipment item.
C10_RejectAlwaysRecords ==
  [][\A p \in Procs :
       Rejects(p)
       => /\ requests'[h[p].requestId].status = "rejected"
          /\ requests'[h[p].requestId].rejectionReason = h'[p].reason
          /\ equipment' = equipment]_vars

\* C10 (amended): with a reason of at most 300 characters rejectRequest sets
\* the status to rejected, records the reason and answers 200; with a longer
\* one it answers 500 and leaves the requests as they were; either way no
\* equipment item changes.
C10_RejectRecordsShortReason ==
  [][\A p \in Procs :
       Rejects(p)
       => /\ IF ReasonLength(h'[p].reason) <= MaxReasonLength
             THEN /\ requests'[h[p].requestId].status = "rejected"
                  /\ requests'[h[p].requestId].rejectionReason = h'[p].reason
                  /\ h'[p].result = 200
             ELSE /\ requests' = requests
                  /\ h'[p].result = 500
          /\ equipment' = equipment]_vars

\* C10 witness: a rejection has succeeded and its reason is stored.
C10_Witness ==
  \E p \in Procs :
    /\ Answered(p, "rejectRequest", 200)
    /\ requests[h[p].requestId].status = "rejected"
    /\ requests[h[p].requestId].rejectionReason = "damaged"

\* C11: markReturned never raises an item's available above its quantity:
\* the step that gives the units back leaves available <= quantity (or the
\* return fails instead of applying the increment).
C11_ReturnWithinQuantity ==
  [][\A p \in Procs :
       ( /\ h[p].pc = "rt_inc"
         /\ h'[p].pc = "rt_save"
         /\ Exists(h[p].equipmentId) )
       => equipment'[h[p].equipmentId].available
            <= equipment'[h[p].equipmentId].quantity]_vars

\* ---------------------------------------------- one call and what it received
\* p answers in this step a call of op; Sent(p) is the request it received.
AnswersCall(p, op) == Answers(p) /\ h'[p].op = op
Sent(p) == h'[p].body

\* The request body fails createRequest's input rules: notes empty, quantity
\* not an integer >= 1, borrowFromDate before today, or borrowToDate not
\* after borrowFromDate.
InvalidCreate(b) ==
  \/ ~b.notes
  \/ b.quantity # Undefined /\ (~b.isInteger \/ b.quantity < 1)
  \/ b.borrowFromDate # Undefined /\ b.borrowFromDate < Today
  \/ /\ b.borrowFromDate # Undefined
     /\ b.borrowToDate # Undefined
     /\ b.borrowToDate <= b.borrowFromDate

\* C12: a createRequest call from a student or staff caller whose input is
\* invalid (return date not after the borrow date, borrow date before today,
\* quantity not an integer >= 1, notes empty) is answered 400 before any
\* database access; no request is created and no state changes.
C12_InvalidCreateRefused ==
  [][\A p \in Procs :
       ( /\ AnswersCall(p, "createRequest")
         /\ studentOnly(Sent(p).role)
         /\ InvalidCreate(Sent(p)) )
       => /\ h[p].pc = "idle"
          /\ h'[p].result = 400
          /\ UNCHANGED <<equipment, requests>>]_vars

\* C12 witness: a request whose return date equals its borrow date, a day
\* not in the past, has been refused.
C12_Witness ==
  \E p \in Procs :
    /\ h[p].pc = "done"
    /\ h[p].op = "createRequest"
    /\ h[p].result = 400
    /\ h[p].body.borrowFromDate >= Today
    /\ h[p].body.borrowToDate = h[p].body.borrowFromDate

\* The request is one createRequest goes through with up to its stock tests:
\* student or staff caller, valid fields, an existing item, and a document
\* the request schema accepts.
ValidCreate(b) ==
  /\ studentOnly(b.role)
  /\ b.notes
  /\ b.isInteger
  /\ b.quantity # Undefined /\ b.quantity >= 1
  /\ b.borrowFromDate # Undefined /\ b.borrowFromDate >= Today
  /\ b.borrowToDate # Undefined /\ b.borrowToDate > b.borrowFromDate
  /\ Exists(b.id)
  /\ b.valid

\* Units of the item promised to pending and approved requests whose range
\* meets the range of request body b.
Committed(b) ==
  SumQuantity(requests,
    { i \in DOMAIN requests :
        /\ requests[i].equipmentId = b.id
        /\ requests[i].status \in {"pending", "approved"}
        /\ requests[i].borrowFromDate <= b.borrowToDate
        /\ requests[i].borrowToDate >= b.borrowFromDate })

\* C13 (as stated): for otherwise valid input a createRequest for exactly
\* the item's available is accepted, and one for available + 1 is refused.
C13_AllAvailableAccepted ==
  [][\A p \in Procs :
       (AnswersCall(p, "createRequest") /\ ValidCreate(Sent(p)))
       => /\ Sent(p).quantity = equipment[Sent(p).id].available
               => h'[p].result = 201
          /\ Sent(p).quantity = equipment[Sent(p).id].available + 1
               => h'[p].result = 400]_vars

\* C13 (amended): for otherwise valid input a createRequest for exactly the
\* item's available is accepted if and only if the units already promised
\* for the range plus the requested ones are within the item's quantity;
\* one for available + 1 is refused with 400 and stores nothing.
C13_AllAvailableAcceptedWithinCapacity ==
  [][\A p \in Procs :
       (AnswersCall(p, "createRequest") /\ ValidCreate(Sent(p)))
       => LET b == Sent(p)
              item == equipment[b.id]
          IN /\ b.quantity = item.available
                  => ( h'[p].result = 201
                         <=> Committed(b) + b.quantity <= item.quantity )
             /\ b.quantity = item.available + 1
                  => (h'[p].result = 400 /\ requests' = requests)]_vars

\* C13 witness: a request for all the available units of an item has been
\* accepted.
C13_Witness ==
  \E p \in Procs :
    /\ h[p].pc = "done"
    /\ h[p].op = "createRequest"
    /\ h[p].result = 201
    /\ Exists(h[p].equipmentId)
    /\ h[p].body.quantity = equipment[h[p].equipmentId].available

\* C14: updateEquipment by an admin on an existing item compares the
\* resulting pair, a field missing from the patch taking the stored value:
\* when the resulting available exceeds the resulting quantity the call
\* answers 400 and the item is unchanged; otherwise it answers 200 and the
\* item holds the resulting pair.
C14_UpdateChecksResultingPair ==
  [][\A p \in Procs :
       ( /\ AnswersCall(p, "updateEquipment")
         /\ Sent(p).role = "admin"
         /\ Exists(Sent(p).id) )
       => LET b == Sent(p)
              old == equipment[b.id]
              q == IF b.quantity = Undefined THEN old.quantity ELSE b.quantity
              a == IF b.available = Undefined THEN old.available ELSE b.available
          IN IF a > q
             THEN h'[p].result = 400 /\ equipment' = equipment
             ELSE /\ h'[p].result = 200
                  /\ equipment'[b.id].quantity = q
                  /\ equipment'[b.id].available = a]_vars

\* C14 witness: a patch carrying only a quantity, lower than the stored
\* available, has been refused.
C14_Witness ==
  \E p \in Procs :
    /\ h[p].pc = "done"
    /\ h[p].op = "updateEquipment"
    /\ h[p].result = 400
    /\ h[p].body.available = Undefined
    /\ h[p].body.quantity # Undefined
    /\ Exists(h[p].body.id)
    /\ equipment[h[p].body.id].available <= equipment[h[p].body.id].quantity

C16_DeleteIgnoresRequests ==
  [][\A p \in Procs :
       ( /\ AnswersCall(p, "deleteEquipment")
         /\ Sent(p).role = "admin"
         /\ Exists(Sent(p).id) )
       => /\ h'[p].result = 200
          /\ ~equipment'[Sent(p).id].live
          /\ requests' = requests]_vars

\* C16 witness: an item has been deleted while a pending or approved request
\* references it.
C16_Witness ==
  \E p \in Procs :
    /\ h[p].pc = "done"
    /\ h[p].op = "deleteEquipment"
    /\ h[p].result = 200
    /\ \E r \in DOMAIN requests :
         /\ requests[r].equipmentId = h[p].equipmentId
         /\ requests[r].status \in {"pending", "approved"}

\* p takes a step of a call of one of ops in this step.
Acts(p, ops) == h'[p] # h[p] /\ h'[p].op \in ops

\* C17: a lifecycle call from a caller who is not an admin, and a
\* createRequest call from a caller who is neither student nor staff, is
\* refused at once (401 without identity, 403 otherwise) and changes no
\* state; a request's status changes, and a lifecycle call changes an item,
\* only in a step of a call made with role admin; a request is stored only
\* by a call made with role student or staff.
C17_RolesGuardLifecycle ==
  [][/\ \A p \in Procs :
          ( \/ Acts(p, Lifecycle) /\ Sent(p).role # "admin"
            \/ Acts(p, {"createRequest"}) /\ Sent(p).role \notin {"student", "staff"} )
          => /\ h[p].pc = "idle"
             /\ h'[p].pc = "done"
             /\ h'[p].result = (IF Sent(p).role = "none" THEN 401 ELSE 403)
             /\ UNCHANGED <<equipment, requests>>
     /\ (\E r \in DOMAIN requests : requests'[r].status # requests[r].status)
          => \E p \in Procs : Acts(p, Lifecycle) /\ Sent(p).role = "admin"
     /\ Len(requests') # Len(requests)
          => \E p \in Procs : /\ Acts(p, {"createRequest"})
                              /\ Sent(p).role \in {"student", "staff"}]_vars

\* C17 witness: staff asked to approve, reject or return a stored pending
\* request and was refused.
C17_Witness ==
  \E p \in Procs :
    /\ h[p].pc = "done"
    /\ h[p].op \in Lifecycle
    /\ h[p].body.role = "staff"
    /\ h[p].result = 403
    /\ \E r \in DOMAIN requests : requests[r].status = "pending"

\* C18: for valid input on an existing item, createRequest accepts if and
\* only if available > 0, quantity <= available and committed + quantity <=
\* item.quantity; on acceptance exactly one request, pending and carrying
\* the submitted item, quantity and dates, is added, otherwise none.
C18_CreateAcceptsIff ==
  [][\A p \in Procs :
       (AnswersCall(p, "createRequest") /\ ValidCreate(Sent(p)))
       => LET b == Sent(p)
              item == equipment[b.id]
              accepted == /\ item.available > 0
                          /\ b.quantity <= item.available
                          /\ Committed(b) + b.quantity <= item.quantity
          IN IF accepted
             THEN /\ h'[p].result = 201
                  /\ Len(requests') = Len(requests) + 1
                  /\ \A r \in DOMAIN requests : requests'[r] = requests[r]
                  /\ LET new == requests'[Len(requests')]
                     IN /\ new.status = "pending"
                        /\ new.equipmentId = b.id
                        /\ new.quantity = b.quantity
                        /\ new.borrowFromDate = b.borrowFromDate
                        /\ new.borrowToDate = b.borrowToDate
             ELSE /\ h'[p].result = 400
                  /\ requests' = requests]_vars

\* C18 witness: a request has been accepted next to an overlapping one that
\* already holds units of the same item.
C18_Witness ==
  \E p \in Procs :
    /\ h[p].pc = "done"
    /\ h[p].op = "createRequest"
    /\ h[p].result = 201
    /\ h[p].requestId = 2
    /\ requests[1].equipmentId = requests[2].equipmentId
    /\ requests[1].status \in {"pending", "approved"}
    /\ requests[1].borrowFromDate <= requests[2].borrowToDate
    /\ requests[1].borrowToDate >= requests[2].borrowFromDate

\* p's createRequest is refused by the date-range capacity check in this step.
CapacityRefusal(p) == h[p].pc = "cr_overlap" /\ h'[p].pc = "done"

\* createRequest would accept quantity units of item e for [fromDate, toDate]
\* in the database as it is after this step.
AcceptsNext(e, quantity, fromDate, toDate) ==
  /\ e \in DOMAIN equipment' /\ equipment'[e].live
  /\ ~insufficientAvailable(equipment'[e].available, quantity)
  /\ ~capacityExceeded(
        SumQuantity(requests',
          { i \in DOMAIN requests' :
              /\ requests'[i].equipmentId = e
              /\ requests'[i].status \in {"approved", "pending"}
              /\ Overlaps(requests'[i], fromDate, toDate) }),
        quantity, equipment'[e].quantity)

\* C19 (as stated): the number n reported by a capacity refusal is the
\* item's quantity minus committed, 0 <= n < requested quantity, and when
\* n >= 1 the same request for n units made next is accepted.
C19_RemainingExactAndNonNegative ==
  [][\A p \in Procs :
       CapacityRefusal(p)
       => LET b == Sent(p)
              n == h'[p].remaining
          IN /\ n = equipment[b.id].quantity - Committed(b)
             /\ 0 <= n
             /\ n < b.quantity
             /\ n >= 1 => AcceptsNext(b.id, n, b.borrowFromDate, b.borrowToDate)]_vars

\* C19 (amended): the number n reported by a capacity refusal is the item's
\* quantity minus committed and is below the requested quantity; it is
\* negative exactly when committed exceeds the item's quantity; when n >= 1
\* the same request for n units made next is accepted.
C19_RemainingExact ==
  [][\A p \in Procs :
       CapacityRefusal(p)
       => LET b == Sent(p)
              n == h'[p].remaining
          IN /\ n = equipment[b.id].quantity - Committed(b)
             /\ n < b.quantity
             /\ n < 0 <=> Committed(b) > equipment[b.id].quantity
             /\ n >= 1 => AcceptsNext(b.id, n, b.borrowFromDate, b.borrowToDate)]_vars

\* C19 witness: a request for two units has been refused with one unit
\* reported as still obtainable.
C19_Witness ==
  \E p \in Procs :
    /\ h[p].pc = "done"
    /\ h[p].op = "createRequest"
    /\ h[p].result = 400
    /\ h[p].body.quantity = 2
    /\ h[p].quantity = 2
    /\ h[p].remaining = 1

\* Requests of item e, pending or approved, that have a day in common with
\* [fromDate, toDate].
SharingADay(e, fromDate, toDate) ==
  { i \in DOMAIN requests :
      /\ requests[i].equipmentId = e
      /\ requests[i].status \in {"pending", "approved"}
      /\ \E t \in 0..MaxDay :
           /\ fromDate <= t /\ t <= toDate
           /\ requests[i].borrowFromDate <= t /\ t <= requests[i].borrowToDate }

\* C20: the overlap test of createRequest is the inclusive intersection of
\* the two ranges: the capacity check counts exactly the pending and
\* approved requests of the item that share at least one day with the new
\* range (one that ends on the day the new one starts included), and
\* refuses exactly when their quantities plus the requested one exceed the
\* item's quantity.
C20_OverlapIsInclusive ==
  [][\A p \in Procs :
       (h[p].pc = "cr_overlap" /\ h'[p] # h[p])
       => ( h'[p].pc = "done"
            <=> SumQuantity(requests,
                            SharingADay(h[p].equipmentId, h[p].fromDate, h[p].toDate))
                  + h[p].quantity > h[p].snapQuantity )]_vars

\* C20 witness: a request has been refused for lack of capacity although the
\* only other request of the item ends on the very day the new one starts.
C20_Witness ==
  \E p \in Procs :
    /\ h[p].pc = "done"
    /\ h[p].op = "createRequest"
    /\ h[p].result = 400
    /\ h[p].quantity >= 1
    /\ Len(requests) = 1
    /\ requests[1].equipmentId = h[p].equipmentId
    /\ requests[1].status \in {"pending", "approved"}
    /\ requests[1].borrowToDate = h[p].fromDate

\* C21: approveRequest re-reads nothing between its check and its write: the
\* decrement is applied whatever available has become, so two calls on two
\* pending requests of one item that both passed the check both subtract and
\* both succeed, and available goes negative.
C21_DecrementIsUnconditional ==
  [][\A p \in Procs :
       ( /\ h[p].pc = "ap_dec"
         /\ h'[p] # h[p]
         /\ Exists(h[p].equipmentId) )
       => /\ h'[p].pc = "ap_save"
          /\ equipment'[h[p].equipmentId].available
               = equipment[h[p].equipmentId].available - h[p].quantity]_vars

\* C21 witness: two approveRequest calls on two different requests of the
\* same item have both answered 200, both requests are approved and the
\* item's available is negative.
C21_Witness ==
  \E p, q \in Procs :
    /\ p # q
    /\ Answered(p, "approveRequest", 200)
    /\ Answered(q, "approveRequest", 200)
    /\ h[p].requestId # h[q].requestId
    /\ h[p].equipmentId = h[q].equipmentId
    /\ requests[h[p].requestId].status = "approved"
    /\ requests[h[q].requestId].status = "approved"
    /\ h[p].pre = h[q].pre
    /\ h[p].pre < requests[h[p].requestId].quantity + requests[h[q].requestId].quantity
    /\ Exists(h[p].equipmentId)
    /\ equipment[h[p].equipmentId].available < 0

\* C22: approveRequest and markReturned apply the ledger change and the
\* status change as one unit: a call that has written the item's available
\* answers only with the request's status changed too (stated for calls run
\* one at a time, where a call at its save has written the item whenever the
\* item still exists).
C22_LedgerAndStatusTogether ==
  [][\A p \in Procs :
       ( /\ Answers(p)
         /\ h[p].pc \in {"ap_save", "rt_save"}
         /\ Exists(h[p].equipmentId) )
       => requests'[h[p].requestId].status # requests[h[p].requestId].status]_vars

\* C23: the ledger side effect of a transition is applied at most once per
\* request: of the markReturned calls on one request of an item that still
\* exists (each such call that succeeds has added the units back), at most
\* one succeeds.
C23_ReturnAddsBackOnce ==
  \A p, q \in Procs :
    ( /\ p # q
      /\ Answered(p, "markReturned", 200)
      /\ Exists(h[p].equipmentId)
      /\ h[q].op = "markReturned"
      /\ h[q].requestId = h[p].requestId )
    => ~(h[q].pc = "done" /\ h[q].result = 200)

\* C24: the status-specific fields agree with the status: approvedBy is set
\* only on an approved or returned request, rejectionReason only on a
\* rejected one, actualReturnDate only on a returned one.
C24_FieldsAgreeWithStatus ==
  \A r \in DOMAIN requests :
    /\ requests[r].approvedBy => requests[r].status \in {"approved", "returned"}
    /\ requests[r].rejectionReason # Null => requests[r].status = "rejected"
    /\ requests[r].actualReturnDate => requests[r].status = "returned"

\* C25: updateEquipment enforces the minimums of creation on the resulting
\* pair: a patch by an admin on an existing item that leaves available below
\* 0 or quantity below 1 answers 400 and leaves the item unchanged.
C25_UpdateEnforcesMinimums ==
  [][\A p \in Procs :
       ( /\ AnswersCall(p, "updateEquipment")
         /\ Sent(p).role = "admin"
         /\ Exists(Sent(p).id) )
       => LET b == Sent(p)
              old == equipment[b.id]
          IN (resulting(b.available, old.available) < 0
                \/ resulting(b.quantity, old.quantity) < 1)
             => h'[p].result = 400 /\ equipment' = equipment]_vars

\* C26: an item that stays in the catalogue changes only in the decrement of
\* an approveRequest (available minus the request's quantity), the increment
\* of a markReturned (available plus the request's quantity) or the write of
\* an updateEquipment on that item; every step of a createRequest or a
\* rejectRequest, refused or not, leaves the whole equipment collection as
\* it was.
C26_OnlyLedgerOperationsWrite ==
  [][/\ \A e \in DOMAIN equipment :
          ( /\ equipment[e].live
            /\ equipment'[e].live
            /\ equipment'[e] # equipment[e] )
          => \E p \in Procs :
               /\ h'[p] # h[p]
               /\ h[p].equipmentId = e
               /\ \/ /\ h[p].pc = "ap_dec"
                     /\ equipment'[e].quantity = equipment[e].quantity
                     /\ equipment'[e].available
                          = equipment[e].available - requests[h[p].requestId].quantity
                  \/ /\ h[p].pc = "rt_inc"
                     /\ equipment'[e].quantity = equipment[e].quantity
                     /\ equipment'[e].available
                          = equipment[e].available + requests[h[p].requestId].quantity
                  \/ h[p].pc = "upd_write"
     /\ \A p \in Procs :
          Acts(p, {"createRequest", "rejectRequest"}) => equipment' = equipment]_vars

\* C26 witness: a createRequest has been accepted and another request of the
\* same item has been rejected, and the item still has every unit available.
C26_Witness ==
  \E p \in Procs : \E r \in DOMAIN requests :
    /\ Answered(p, "createRequest", 201)
    /\ r # h[p].requestId
    /\ requests[r].equipmentId = h[p].equipmentId
    /\ requests[r].status = "rejected"
    /\ Exists(h[p].equipmentId)
    /\ equipment[h[p].equipmentId].available = equipment[h[p].equipmentId].quantity
    /\ equipment[h[p].equipmentId].quantity >= 1

\* The days a borrow range can start and end on.
Days == 0..MaxDay

\* C27: approving a pending request neither frees nor consumes date-range
\* capacity: in the step that saves an approval, the committed total of every
\* item over every date range is the same before and after, so a request the
\* capacity check refused before the approval is still refused after it.
C27_ApprovalKeepsCommitted ==
  [][\A p \in Procs :
       ( /\ Answers(p)
         /\ h[p].pc = "ap_save"
         /\ h'[p].result = 200 )
       => \A e \in DOMAIN equipment : \A a, b \in Days :
            /\ totalRequestedQuantity(e, a, b)' = totalRequestedQuantity(e, a, b)
            /\ \A quantity \in 1..MaxQty :
                 capacityExceeded(totalRequestedQuantity(e, a, b), quantity,
                                  equipment[e].quantity)
                 => capacityExceeded(totalRequestedQuantity(e, a, b)', quantity,
                                     equipment'[e].quantity)]_vars

\* C27 witness: a request has been approved on an item whose whole quantity
\* it takes, so a second request like it is refused by the capacity check.
C27_Witness ==
  \E p \in Procs :
    /\ Answered(p, "approveRequest", 200)
    /\ requests[h[p].requestId].status = "approved"
    /\ Exists(h[p].equipmentId)
    /\ LET r == requests[h[p].requestId]
       IN capacityExceeded(
            totalRequestedQuantity(r.equipmentId, r.borrowFromDate, r.borrowToDate),
            r.quantity, equipment[r.equipmentId].quantity)

ApprovedQuantity(e) ==
  SumQuantity(requests, { i \in DOMAIN requests :
                            /\ requests[i].equipmentId = e
                            /\ requests[i].status = "approved" })

\* C29: for an item added with available = quantity and never edited or
\* deleted by an administrator, between calls run one at a time the units
\* missing from available are exactly the units of its approved requests:
\* quantity - available = sum of quantity over the item's approved requests.
C29_BorrowedIsApprovedSum ==
  (\A p \in Procs : h[p].pc \in {"idle", "done"})
  => \A e \in DOMAIN equipment :
       Exists(e) =>
         equipment[e].quantity - equipment[e].available = ApprovedQuantity(e)

\* The bound on available stops a return in flight: the model follows the
\* ledger no further.
LedgerAtBound ==
  \E p \in Procs :
    /\ h[p].pc = "rt_inc"
    /\ Exists(h[p].equipmentId)
    /\ equipment[h[p].equipmentId].available + h[p].quantity > MaxAvail

\* C30: no request gets stuck: with administrators who keep rejecting
\* pending requests and returning approved ones, every stored request
\* eventually has a terminal status (rejected or returned), whatever has
\* happened to its item, up to the bound the model puts on available.
C30_EveryRequestSettles ==
  \A r \in ReqIds :
    (r \in DOMAIN requests)
      ~> ( \/ r \in DOMAIN requests /\ requests[r].status \in {"rejected", "returned"}
           \/ LedgerAtBound )

\* C30 witness: a request has been returned after its item was deleted.
C30_Witness ==
  \E p \in Procs :
    /\ Answered(p, "markReturned", 200)
    /\ requests[h[p].requestId].status = "returned"
    /\ h[p].equipmentId \in DOMAIN equipment
    /\ ~Exists(h[p].equipmentId)

====
